---- MODULE Spec2Model ----
(***************************************************************************)
(* A model of avfork: the arena allocator (Stack, StackObjectAllocator,    *)
(* StackBox), the avfork protocol with its completion pipe, the exit       *)
(* notification subsystem (SigChldFd with its wait-map), the pool of       *)
(* Stacks (StacksQueue), autorestart, the path search of execvel and      *)
(* fexecvel with the path execvel constructs, SigChldFd::new, the child    *)
(* side of avfork and avfork_rec, ExitInfo and SyscallError.               *)
(***************************************************************************)
EXTENDS Integers, Sequences, FiniteSets, TLC

(***************************************************************************)
(* Bounds of the model.                                                    *)
(***************************************************************************)
\* reserve() is tried with object capacities 0, 8, ..., 8 * MaxN
MaxN == 2
\* alloc_obj calls made on one allocator
MaxCalls == 3
\* children spawned while the SigChldFd exists
MaxKids == 2
\* tasks calling SigChldFd::wait
MaxTasks == 2
\* spawn attempts a caller makes on one Stack
MaxAttempts == 2
\* threads using the pool of Stacks
MaxThreads == 2
\* Stacks constructed while the pool is in use
MaxStacks == 4
\* results the closure given to autorestart is scripted to return
MaxLen == 3
\* search paths of an ExecvelCandidate or FexecvelCandidate
MaxPaths == 3
\* calls of SigChldFd::new
MaxNew == 2
\* calls of get_msg on one SyscallError
MaxGets == 2

(***************************************************************************)
(* Program constants.                                                      *)
(***************************************************************************)
\* "reserve would unconditionally allocate (32 * 1024) bytes"
MinStackSz == 32768
\* libc::EINTR
EINTR == 4
\* libc::EACCES, ENOENT, ESTALE, ENOTDIR, ENODEV, ETIMEDOUT on Linux
EACCES == 13
ENOENT == 2
ESTALE == 116
ENOTDIR == 20
ENODEV == 19
ETIMEDOUT == 110
\* pub const PATH_MAX: usize = 5 * 4096, the null byte included
PATH_MAX == 20480
\* pub const FILENAME_MAX: usize = 255, the null byte not included
FILENAME_MAX == 255
\* the number of messages in the table built from errno_msgs.h: one for
\* each errno of Linux, 1..133
errno_msgs_sz == 133

(***************************************************************************)
(* Inputs.                                                                 *)
(***************************************************************************)
\* layouts (mem::size_of, mem::align_of) of the types placed on the stack:
\* a zero sized type, u16, u64 and a padded struct (u64, u8)
Zst == [size |-> 0, align |-> 1]
U16 == [size |-> 2, align |-> 2]
U64 == [size |-> 8, align |-> 8]
Pair == [size |-> 16, align |-> 8]
Types == {Zst, U16, U64, Pair}
\* payloads written to an object: two values tell a value read back from
\* another one
Vals == {1, 2}
Caps == {8 * n : n \in 0..MaxN}
\* addresses the kernel may map the region at
MapAddrs == {65536}

VARIABLES
    stack_impl,   \* Stack::stack_impl, the Stack_t of the Stack
    alloc,        \* the StackObjectAllocator borrowed from the Stack
    boxes,        \* the StackBoxes handed out by the allocator, in order
    mem,          \* contents of the reserved region, byte address -> value
    calls,        \* history of the alloc_obj calls on the allocator
    last,         \* what the last operation was given and returned
    kids,         \* the children of the process, by order of birth
    sigq,         \* the SIGCHLD pending on the signalfd, if any
    epoll,        \* a readiness event of the signalfd not yet seen by tokio
    ready,        \* AsyncFd: the cached readiness and whether it is newer
                  \* than the guard the reap task holds
    reaper,       \* the background task running SigChldFd::read
    map,          \* SigChldFd::map, the WaitMap<Pid, ExitInfo>
    waiters,      \* the tasks calling SigChldFd::wait
    fdtab,        \* the caller's open fds that are completion pipe read ends
    pipe,         \* the completion pipe: bytes in it, holders of its write end
    child,        \* the child made by the last avfork
    caller,       \* the thread that spawns and reads the completion pipe
    queue,        \* StacksQueue::QUEUE, the pooled Stacks in order
    held,         \* the Stacks each thread owns
    made,         \* number of Stacks constructed so far (Stack::new)
    gone,         \* the Stacks that were dropped (Drop for Stack)
    lastget,      \* what the last StacksQueue::get did
    script,       \* the results the closure f returns, call after call
    ar,           \* the call of autorestart(f): position, calls of f, result
    outcomes,     \* what the kernel answers when the file under each search
                  \* path is executed, path after path: 0 or an errno
    ex,           \* the call of execvel or fexecvel: position in the paths,
                  \* got_eaccess, the paths tried, the error returned
    blocked,      \* the signals the thread calling SigChldFd::new has blocked
    sigfds,       \* the signalfds the process has open
    readers,      \* the reap tasks spawned, each with the fd it reads
    ctor,         \* the call of SigChldFd::new: position, result
    spawner,      \* the call of avfork or avfork_rec whose child is followed:
                  \* the thread's mask and handlers, what it passes
    cb,           \* that child: its mask and handlers, the calls of the
                  \* callback with what each was given
    siginfo,      \* a siginfo_t waitid has filled in for an exited child
    exitinfo,     \* the ExitInfo the reap loop has made of it
    serr,         \* a SyscallError
    msgs,         \* what the calls of get_msg on it have returned, in order
    cand,         \* the filename and the search paths given for an
                  \* ExecvelCandidate, by their lengths, and how far execvel is
    written       \* the writes execvel has made into constructed_path

arenaVars == <<stack_impl, alloc, boxes, mem, calls, last>>
sigVars == <<kids, sigq, epoll, ready, reaper, map, waiters>>
forkVars == <<fdtab, pipe, child, caller>>
poolVars == <<queue, held, made, gone, lastget>>
restartVars == <<script, ar>>
execVars == <<outcomes, ex>>
newVars == <<blocked, sigfds, readers, ctor>>
childVars == <<spawner, cb>>
infoVars == <<siginfo, exitinfo>>
msgVars == <<serr, msgs>>
pathVars == <<cand, written>>
vars ==
    <<arenaVars, sigVars, forkVars, poolVars, restartVars, execVars,
      newVars, childVars, infoVars, msgVars, pathVars>>
\* what the operations of one subsystem leave alone
notArena ==
    <<sigVars, forkVars, poolVars, restartVars, execVars, newVars,
      childVars, infoVars, msgVars, pathVars>>
notSig ==
    <<arenaVars, forkVars, poolVars, restartVars, execVars, newVars,
      childVars, infoVars, msgVars, pathVars>>
notFork ==
    <<arenaVars, sigVars, poolVars, restartVars, execVars, newVars,
      childVars, infoVars, msgVars, pathVars>>
notPool ==
    <<arenaVars, sigVars, forkVars, restartVars, execVars, newVars,
      childVars, infoVars, msgVars, pathVars>>
notRestart ==
    <<arenaVars, sigVars, forkVars, poolVars, execVars, newVars,
      childVars, infoVars, msgVars, pathVars>>
notExec ==
    <<arenaVars, sigVars, forkVars, poolVars, restartVars, newVars,
      childVars, infoVars, msgVars, pathVars>>
notNew ==
    <<arenaVars, sigVars, forkVars, poolVars, restartVars, execVars,
      childVars, infoVars, msgVars, pathVars>>
notChild ==
    <<arenaVars, sigVars, forkVars, poolVars, restartVars, execVars,
      newVars, infoVars, msgVars, pathVars>>
notInfo ==
    <<arenaVars, sigVars, forkVars, poolVars, restartVars, execVars,
      newVars, childVars, msgVars, pathVars>>
notMsg ==
    <<arenaVars, sigVars, forkVars, poolVars, restartVars, execVars,
      newVars, childVars, infoVars, pathVars>>
notPath ==
    <<arenaVars, sigVars, forkVars, poolVars, restartVars, execVars,
      newVars, childVars, infoVars, msgVars>>

NullStack == [addr |-> 0, size |-> 0]
NoAlloc == [live |-> FALSE, stack |-> NullStack, alloc_obj_sz |-> 0,
            reserved_obj_sz |-> 0]

(***************************************************************************)
(* aspawn's C side of the arena: it is not part of the Rust sources.       *)
(***************************************************************************)
\* the region is grown when it is smaller than the machinery plus the objects
reserve_stack(stack, reserved_stack_sz, obj_sz, addr) ==
    LET need == MinStackSz + reserved_stack_sz + obj_sz
    IN  IF stack.size < need THEN [addr |-> addr, size |-> need] ELSE stack

\* objects are carved from the top of the region, the stack grows below them
allocate_obj_on_stack(stack, len) ==
    [stack |-> [stack EXCEPT !.size = @ - len],
     addr |-> stack.addr + (stack.size - len)]

(***************************************************************************)
(* StackObjectAllocator                                                    *)
(***************************************************************************)
\* mutant: the counter starts at what the region has beyond the request
StackObjectAllocator_new_CountsSlack(stack, reserved_obj_sz) ==
    [live |-> TRUE, stack |-> stack,
     alloc_obj_sz |-> stack.size - (MinStackSz + reserved_obj_sz),
     reserved_obj_sz |-> reserved_obj_sz]

StackObjectAllocator_new(stack, reserved_obj_sz) ==
    [live |-> TRUE, stack |-> stack, alloc_obj_sz |-> 0,
     reserved_obj_sz |-> reserved_obj_sz]

\* size_of::<T>() rounded up to align_of::<T>()
RoundedSize(T) ==
    LET remnant == T.size % T.align
    IN  T.size + (IF remnant # 0 THEN T.align - remnant ELSE 0)

\* mutants of the capacity test
Exceeds_NoSize(alloc_obj_sz, size, reserved_obj_sz) ==
    alloc_obj_sz > reserved_obj_sz

Exceeds_OffByOne(alloc_obj_sz, size, reserved_obj_sz) ==
    (alloc_obj_sz + size) >= reserved_obj_sz

\* the capacity test of alloc_obj
Exceeds(alloc_obj_sz, size, reserved_obj_sz) ==
    (alloc_obj_sz + size) > reserved_obj_sz

\* mutant: the counter is bumped before the capacity test
alloc_obj_BumpFirst(a, T, obj) ==
    LET size == RoundedSize(T)
        bumped == [a EXCEPT !.alloc_obj_sz = @ + size]
    IN  IF Exceeds(a.alloc_obj_sz, size, a.reserved_obj_sz)
        THEN [alloc |-> bumped, ok |-> FALSE, val |-> obj, size |-> size]
        ELSE LET r == allocate_obj_on_stack(a.stack, size)
             IN  [alloc |-> [bumped EXCEPT !.stack = r.stack],
                  ok |-> TRUE, val |-> r.addr, size |-> size]

\* mutant: the cursor is advanced on a copy of the Stack_t, not in the cell
alloc_obj_CursorCopy(a, T, obj) ==
    LET size == RoundedSize(T)
    IN  IF Exceeds(a.alloc_obj_sz, size, a.reserved_obj_sz)
        THEN [alloc |-> a, ok |-> FALSE, val |-> obj, size |-> size]
        ELSE LET r == allocate_obj_on_stack(a.stack, size)
             IN  [alloc |-> [a EXCEPT !.alloc_obj_sz = @ + size],
                  ok |-> TRUE, val |-> r.addr, size |-> size]

\* alloc_obj on allocator a: the allocator afterwards and the result,
\* Err(obj) or Ok(StackBox at val)
alloc_obj(a, T, obj) ==
    LET size == RoundedSize(T)
    IN  IF Exceeds(a.alloc_obj_sz, size, a.reserved_obj_sz)
        THEN [alloc |-> a, ok |-> FALSE, val |-> obj, size |-> size]
        ELSE LET r == allocate_obj_on_stack(a.stack, size)
             IN  [alloc |-> [a EXCEPT !.alloc_obj_sz = @ + size,
                                      !.stack = r.stack],
                  ok |-> TRUE, val |-> r.addr, size |-> size]

\* the bytes a StackBox refers to
Range(b) == b.ptr..(b.ptr + b.size - 1)

\* addr.write(obj) and *b = obj: every byte of the slot takes the value
WriteMem(m, ptr, size, obj) ==
    [x \in DOMAIN m \cup (ptr..(ptr + size - 1)) |->
        IF x \in ptr..(ptr + size - 1) THEN obj ELSE m[x]]

\* drop_in_place: the bytes of the slot hold no object any more
ForgetMem(m, ptr, size) ==
    [x \in DOMAIN m \ (ptr..(ptr + size - 1)) |-> m[x]]

NoMem == [x \in {} |-> 0]
NoResult == [op |-> "none", arg |-> 0, ok |-> TRUE, val |-> 0]

ArenaInit ==
    /\ stack_impl = NullStack          \* Stack::new()
    /\ alloc = NoAlloc
    /\ boxes = <<>>
    /\ mem = NoMem
    /\ calls = <<>>
    /\ last = NoResult

\* Stack::reserve: reserve_stack fails with errno, or a new allocator holding
\* a copy of the Stack_t is returned.  The allocator borrows the Stack, so
\* the previous allocator is gone by then.
Reserve(reserved_stack_sz, reserved_obj_sz, errno, addr) ==
    /\ UNCHANGED notArena
    /\ ~alloc.live
    /\ IF errno # 0
       THEN /\ last' = [op |-> "reserve", arg |-> reserved_obj_sz,
                        ok |-> FALSE, val |-> errno]
            /\ UNCHANGED <<stack_impl, alloc, boxes, mem, calls>>
       ELSE LET st == reserve_stack(stack_impl, reserved_stack_sz,
                                    reserved_obj_sz, addr)
            IN  /\ stack_impl' = st
                /\ alloc' = StackObjectAllocator_new(st, reserved_obj_sz)
                /\ boxes' = <<>>
                /\ calls' = <<>>
                /\ mem' = NoMem
                /\ last' = [op |-> "reserve", arg |-> reserved_obj_sz,
                            ok |-> TRUE, val |-> 0]

\* StackObjectAllocator::alloc_obj(obj) for an obj of type T
AllocObj(T, obj) ==
    /\ UNCHANGED notArena
    /\ alloc.live
    /\ Len(calls) < MaxCalls
    /\ LET r == alloc_obj(alloc, T, obj)
       IN  /\ alloc' = r.alloc
           /\ calls' = Append(calls, [ty |-> T, ok |-> r.ok])
           /\ last' = [op |-> "alloc_obj", arg |-> obj, ok |-> r.ok,
                       val |-> r.val]
           /\ IF r.ok
              THEN /\ boxes' = Append(boxes, [ptr |-> r.val, size |-> r.size,
                                              val |-> obj, live |-> TRUE])
                   /\ mem' = WriteMem(mem, r.val, r.size, obj)
              ELSE UNCHANGED <<boxes, mem>>
    /\ UNCHANGED stack_impl

\* DerefMut for StackBox: *b = obj
WriteBox(i, obj) ==
    /\ UNCHANGED notArena
    /\ i \in 1..Len(boxes)
    /\ boxes[i].live
    /\ boxes[i].val # obj
    /\ mem' = WriteMem(mem, boxes[i].ptr, boxes[i].size, obj)
    /\ boxes' = [boxes EXCEPT ![i].val = obj]
    /\ last' = [op |-> "write", arg |-> 0, ok |-> TRUE, val |-> 0]
    /\ UNCHANGED <<stack_impl, alloc, calls>>

\* mutant: the bytes of the dropped object go back to the allocator
DropBox_Reclaims(i) ==
    /\ UNCHANGED notArena
    /\ i \in 1..Len(boxes)
    /\ boxes[i].live
    /\ boxes' = [boxes EXCEPT ![i].live = FALSE]
    /\ mem' = ForgetMem(mem, boxes[i].ptr, boxes[i].size)
    /\ last' = [op |-> "drop", arg |-> 0, ok |-> TRUE, val |-> 0]
    /\ alloc' = [alloc EXCEPT !.alloc_obj_sz = @ - boxes[i].size,
                              !.stack.size = @ + boxes[i].size]
    /\ UNCHANGED <<stack_impl, calls>>

\* Drop for StackBox: the value is dropped in place, nothing is reclaimed
DropBox(i) ==
    /\ UNCHANGED notArena
    /\ i \in 1..Len(boxes)
    /\ boxes[i].live
    /\ boxes' = [boxes EXCEPT ![i].live = FALSE]
    /\ mem' = ForgetMem(mem, boxes[i].ptr, boxes[i].size)
    /\ last' = [op |-> "drop", arg |-> 0, ok |-> TRUE, val |-> 0]
    /\ UNCHANGED <<stack_impl, alloc, calls>>

\* the allocator goes out of scope; its StackBoxes cannot outlive it
DropAllocator ==
    /\ UNCHANGED notArena
    /\ alloc.live
    /\ \A i \in 1..Len(boxes) : ~boxes[i].live
    /\ alloc' = [alloc EXCEPT !.live = FALSE]
    /\ last' = [op |-> "drop_alloc", arg |-> 0, ok |-> TRUE, val |-> 0]
    /\ UNCHANGED <<stack_impl, boxes, mem, calls>>

ArenaNext ==
    \/ \E c \in Caps, e \in {0, 12}, a \in MapAddrs : Reserve(0, c, e, a)
    \/ \E T \in Types, v \in Vals : AllocObj(T, v)
    \/ \E i \in 1..MaxCalls, v \in Vals : WriteBox(i, v)
    \/ \E i \in 1..MaxCalls : DropBox(i)
    \/ DropAllocator

(***************************************************************************)
(* SigChldFd: the exit notification subsystem                              *)
(***************************************************************************)
Kids == 1..MaxKids
\* the pid numbers the kernel hands out; two are enough for two children to
\* be alive at once and for a freed pid to be handed out again
Pids == {1, 2}
Tasks == 1..MaxTasks
\* how a child ends: _exit(code), or killed by a signal
CLD_EXITED == "CLD_EXITED"
CLD_KILLED == "CLD_KILLED"
ExitCodes == {1}
TermSigs == {9}
Ends == [code : {CLD_EXITED}, status : ExitCodes]
          \cup [code : {CLD_KILLED}, status : TermSigs]
ECHILD == "ECHILD"
\* an error of read(2) that is neither EINTR nor EAGAIN
ReadErrors == {"EIO"}

NoKid == [st |-> "unborn", pid |-> 0, code |-> "", status |-> 0]
NoSig == [pending |-> FALSE, ssi_pid |-> 0]
NoInfo == [uid |-> 0, wstatus |-> 0 - 1, utime |-> 0, stime |-> 0]
NoMap == [x \in {} |-> NoInfo]
IdleWaiter == [pc |-> "idle", pid |-> 0, early |-> FALSE, res |-> NoInfo]

SigInit ==
    /\ kids = [c \in Kids |-> NoKid]
    /\ sigq = NoSig
    /\ epoll = FALSE
    /\ ready = [set |-> FALSE, fresh |-> FALSE]
    /\ reaper = [pc |-> "readable", buf |-> 0, err |-> ""]
    /\ map = NoMap
    /\ waiters = [t \in Tasks |-> IdleWaiter]

\* the siginfo_t waitid fills in for zombie c
SigInfoOf(c) ==
    [si_pid |-> kids[c].pid, si_uid |-> 0, si_status |-> kids[c].status,
     si_code |-> kids[c].code, si_utime |-> 0, si_stime |-> 0]

\* mutant: the status is taken from the record read from the signalfd
MakeExitInfo_FromRecord(si) ==
    [uid |-> si.si_uid, wstatus |-> reaper.buf, utime |-> si.si_utime,
     stime |-> si.si_stime]

\* the ExitInfo the reap loop builds from a siginfo_t
MakeExitInfo(si) ==
    [uid |-> si.si_uid, wstatus |-> si.si_status, utime |-> si.si_utime,
     stime |-> si.si_stime]

\* mutant: the key is taken from the record read from the signalfd
InsertKey_FromSignalfd(si, buf) == buf

\* the key the reap loop inserts under
InsertKey(si, buf) == si.si_pid

\* mutant: the insert is left out
MapInsert_Dropped(m, k, v) == m

\* WaitMap::insert: the entry is created or replaced
MapInsert(m, k, v) == [x \in DOMAIN m \cup {k} |-> IF x = k THEN v ELSE m[x]]

\* a child is born (avfork returned its pid); the kernel hands out a pid
\* that no running child and no zombie holds: the pid of a reaped child
\* again, or a new one (new pids are taken in increasing order, as the
\* numbers themselves carry no meaning)
SpawnChild(c, p) ==
    /\ UNCHANGED notSig
    /\ kids[c].st = "unborn"
    /\ \A d \in Kids : d < c => kids[d].st # "unborn"
    /\ \A d \in Kids : kids[d].st \in {"running", "zombie"} => kids[d].pid # p
    /\ \A q \in Pids : q < p => \E d \in Kids : kids[d].pid = q
    /\ kids' = [kids EXCEPT ![c] = [st |-> "running", pid |-> p,
                                    code |-> "", status |-> 0]]
    /\ UNCHANGED <<sigq, epoll, ready, reaper, map, waiters>>

\* a child ends: it becomes a zombie and SIGCHLD is sent.  SIGCHLD is
\* blocked, so it stays pending; a SIGCHLD that is already pending absorbs
\* the new one.  The signalfd turns readable when the signal gets pending.
ChildEnds(c, e) ==
    /\ UNCHANGED notSig
    /\ kids[c].st = "running"
    /\ kids' = [kids EXCEPT ![c].st = "zombie", ![c].code = e.code,
                            ![c].status = e.status]
    /\ IF sigq.pending
       THEN UNCHANGED <<sigq, epoll>>
       ELSE /\ sigq' = [pending |-> TRUE, ssi_pid |-> kids[c].pid]
            /\ epoll' = TRUE
    /\ UNCHANGED <<ready, reaper, map, waiters>>

\* tokio's I/O driver sees the event and records the readiness
Driver ==
    /\ UNCHANGED notSig
    /\ epoll
    /\ epoll' = FALSE
    /\ ready' = [set |-> TRUE, fresh |-> TRUE]
    /\ UNCHANGED <<kids, sigq, reaper, map, waiters>>

\* read_bytes: self.inner.readable().await returns a guard
ReadableAwait ==
    /\ UNCHANGED notSig
    /\ reaper.pc = "readable"
    /\ ready.set
    /\ ready' = [ready EXCEPT !.fresh = FALSE]
    /\ reaper' = [reaper EXCEPT !.pc = "try_io"]
    /\ UNCHANGED <<kids, sigq, epoll, map, waiters>>

\* read_bytes: guard.try_io(fd.read(out)).  A pending SIGCHLD is read and
\* read() goes on to reap; EAGAIN clears the readiness the guard stands for
\* and read_bytes waits again.
TryIo ==
    /\ UNCHANGED notSig
    /\ reaper.pc = "try_io"
    /\ IF sigq.pending
       THEN /\ sigq' = NoSig
            /\ reaper' = [reaper EXCEPT !.pc = "waitid", !.buf = sigq.ssi_pid]
            /\ UNCHANGED ready
       ELSE /\ ready' = IF ready.fresh THEN ready
                        ELSE [set |-> FALSE, fresh |-> FALSE]
            /\ reaper' = [reaper EXCEPT !.pc = "readable"]
            /\ UNCHANGED sigq
    /\ UNCHANGED <<kids, epoll, map, waiters>>

\* mutant: a failed read is tried again
ReadFails_Retries(e) ==
    /\ UNCHANGED notSig
    /\ reaper.pc = "try_io"
    /\ reaper' = [reaper EXCEPT !.pc = "readable", !.err = e]
    /\ UNCHANGED <<kids, sigq, epoll, ready, map, waiters>>

\* read_bytes: fd.read fails with an error that autorestart does not retry
\* and that is not WouldBlock: try_io hands it on, read_bytes breaks with
\* it and read() returns it by `?`
ReadFails(e) ==
    /\ UNCHANGED notSig
    /\ reaper.pc = "try_io"
    /\ reaper' = [reaper EXCEPT !.pc = "failed", !.err = e]
    /\ UNCHANGED <<kids, sigq, epoll, ready, map, waiters>>

\* read(): waitid(P_ALL, 0, WEXITED | WNOHANG) reaps zombie c, and its
\* ExitInfo is inserted into the map
WaitidReaps(c) ==
    /\ UNCHANGED notSig
    /\ reaper.pc = "waitid"
    /\ kids[c].st = "zombie"
    /\ LET si == SigInfoOf(c)
       IN  map' = MapInsert(map, InsertKey(si, reaper.buf),
                            MakeExitInfo(si))
    /\ kids' = [kids EXCEPT ![c].st = "reaped"]
    /\ UNCHANGED <<sigq, epoll, ready, reaper, waiters>>

\* read(): waitid finds children but no zombie (si_pid stays 0): Ok(None),
\* the loop goes back to read_bytes
WaitidNone ==
    /\ UNCHANGED notSig
    /\ reaper.pc = "waitid"
    /\ \A c \in Kids : kids[c].st # "zombie"
    /\ \E c \in Kids : kids[c].st = "running"
    /\ reaper' = [reaper EXCEPT !.pc = "readable", !.buf = 0]
    /\ UNCHANGED <<kids, sigq, epoll, ready, map, waiters>>

\* read(): the process has no child at all: waitid returns -1 with ECHILD,
\* waitid(..)? returns the error and the task ends
WaitidFails ==
    /\ UNCHANGED notSig
    /\ reaper.pc = "waitid"
    /\ \A c \in Kids : kids[c].st \notin {"zombie", "running"}
    /\ reaper' = [reaper EXCEPT !.pc = "failed", !.buf = 0, !.err = ECHILD]
    /\ UNCHANGED <<kids, sigq, epoll, ready, map, waiters>>

\* mutant: a task that has been suspended is never resumed with the entry
WaitResult_Lost(m, p) == NoInfo

\* what self.map.wait(&pid) resolves to once the entry is there
WaitResult(m, p) == m[p]

\* wait(pid) is called for a child that was spawned: the entry is there and
\* is returned, or the task is suspended in map.wait
WaitCall(t, c) ==
    /\ UNCHANGED notSig
    /\ waiters[t].pc = "idle"
    /\ \A u \in Tasks : u < t => waiters[u].pc # "idle"
    /\ kids[c].st # "unborn"
    /\ LET p == kids[c].pid
       IN  waiters' = [waiters EXCEPT ![t] =
             IF p \in DOMAIN map
             THEN [pc |-> "done", pid |-> p, early |-> FALSE, res |-> map[p]]
             ELSE [pc |-> "suspended", pid |-> p, early |-> TRUE,
                   res |-> NoInfo]]
    /\ UNCHANGED <<kids, sigq, epoll, ready, reaper, map>>

\* the insert woke the task: map.wait resolves and wait returns the value
WaitWake(t) ==
    /\ UNCHANGED notSig
    /\ waiters[t].pc = "suspended"
    /\ waiters[t].pid \in DOMAIN map
    /\ waiters' = [waiters EXCEPT ![t].pc = "done",
                                  ![t].res = WaitResult(map, waiters[t].pid)]
    /\ UNCHANGED <<kids, sigq, epoll, ready, reaper, map>>

SigNext ==
    \/ \E c \in Kids, p \in Pids : SpawnChild(c, p)
    \/ \E c \in Kids, e \in Ends : ChildEnds(c, e)
    \/ Driver
    \/ ReadableAwait
    \/ TryIo
    \/ \E e \in ReadErrors : ReadFails(e)
    \/ \E c \in Kids : WaitidReaps(c)
    \/ WaitidNone
    \/ WaitidFails
    \/ \E t \in Tasks, c \in Kids : WaitCall(t, c)
    \/ \E t \in Tasks : WaitWake(t)

(***************************************************************************)
(* avfork and its completion pipe                                          *)
(***************************************************************************)
\* child-side callbacks: whether it writes an error payload to the fd it is
\* given, and whether it ends in a successful exec or by returning
Callbacks == [writes : BOOLEAN, ends : {"exec", "exit"}]
\* what aspawn returns: the fd of the read end, or -EAGAIN
AspawnRets == {3, 0 - 11}
ChildPids == {100}
\* signals a thread can have blocked
Signals == {"SIGCHLD", "SIGINT"}
\* the signal masks a caller of avfork runs with
CallerMasks == {{}, {"SIGCHLD"}}

NoPipe == [buf |-> <<>>, writers |-> {}]
NoChild == [st |-> "none", f |-> [writes |-> FALSE, ends |-> "exit"],
            wrote |-> FALSE, stack |-> NullStack, func |-> 0]
NoRead == [ok |-> TRUE, v |-> 0 - 1, errno |-> 0]
IdleCaller == [pc |-> "loop", n |-> 0, ret |-> 0, fd |-> 0 - 1, pid |-> 0,
               res |-> NoRead, err |-> 0, sigmask |-> {},
               cancel |-> "enabled"]

ForkInit ==
    /\ fdtab = {}
    /\ pipe = NoPipe
    /\ child = NoChild
    /\ caller = IdleCaller

\* mutant: the errno keeps the sign of the return value
toResult_KeepsSign(result) ==
    IF result >= 0
    THEN [ok |-> TRUE, v |-> result, errno |-> 0]
    ELSE [ok |-> FALSE, v |-> 0, errno |-> result]

\* toResult: the return value of a syscall as a Result.  (-result) as u32
\* keeps the value: the kernel returns no errno beyond 4095
toResult(result) ==
    IF result >= 0
    THEN [ok |-> TRUE, v |-> result, errno |-> 0]
    ELSE [ok |-> FALSE, v |-> 0, errno |-> 0 - result]

\* aspawn, the fork trampoline: on success the parent holds the read end of
\* a new close-on-exec pipe as fd ret, the child alone holds the write end
\* and runs the callback func on the stack it was given
aspawn(stack, func, f, ret, pid) ==
    IF ret < 0
    THEN [ret |-> ret, pid |-> 0, fds |-> {}, pipe |-> NoPipe,
          child |-> NoChild]
    ELSE [ret |-> ret, pid |-> pid, fds |-> {ret},
          pipe |-> [buf |-> <<>>, writers |-> {"child"}],
          child |-> [st |-> "callback", f |-> f, wrote |-> FALSE,
                     stack |-> stack, func |-> func]]

\* mutant: a failing aspawn leaves all signals masked
aspawn_thread_MaskKeptOnError(sigmask, cancel, ret) ==
    LET during == [sigmask |-> Signals, cancel |-> "disabled"]
    IN  [during |-> during, old_sigset |-> sigmask,
         sigmask |-> IF ret < 0 THEN during.sigmask ELSE sigmask,
         cancel |-> cancel]

\* aspawn on the calling thread: cancellation is disabled and all signals
\* are masked for the call, and both are put back before it returns,
\* whatever it returns; old_sigset is the mask handed to the callback
aspawn_thread(sigmask, cancel, ret) ==
    LET during == [sigmask |-> Signals, cancel |-> "disabled"]
    IN  [during |-> during, old_sigset |-> sigmask,
         sigmask |-> sigmask, cancel |-> cancel]

\* mutant: the pid is boxed as the fd
avfork_BoxesPid(ret, pid) ==
    LET fd == toResult(ret)
    IN  IF fd.ok
        THEN [ok |-> TRUE, fd |-> pid, pid |-> fd.v, errno |-> 0]
        ELSE [ok |-> FALSE, fd |-> 0 - 1, pid |-> 0, errno |-> fd.errno]

\* avfork: Ok((FdBox, pid)) or the SyscallError of aspawn
avfork(ret, pid) ==
    LET fd == toResult(ret)
    IN  IF fd.ok
        THEN [ok |-> TRUE, fd |-> fd.v, pid |-> pid, errno |-> 0]
        ELSE [ok |-> FALSE, fd |-> 0 - 1, pid |-> 0, errno |-> fd.errno]

\* read(2) of one byte on fd: -EBADF for an fd that is not open, a byte of
\* the pipe, 0 when the pipe is empty and no write end is left, and it
\* blocks while the pipe is empty and a write end is open
psys_read(fd, fds, p) ==
    IF fd \notin fds
    THEN [blocks |-> FALSE, ret |-> 0 - 9, pipe |-> p]
    ELSE IF p.buf # <<>>
    THEN [blocks |-> FALSE, ret |-> 1, pipe |-> [p EXCEPT !.buf = Tail(@)]]
    ELSE IF p.writers = {}
    THEN [blocks |-> FALSE, ret |-> 0, pipe |-> p]
    ELSE [blocks |-> TRUE, ret |-> 0, pipe |-> p]

\* mutant: the trampoline is given the Stack_t of the Stack, which no
\* alloc_obj has touched
Avfork_PassesStackImpl(i, f, ret, pid) ==
    /\ UNCHANGED notFork
    /\ caller.pc = "loop"
    /\ caller.n < MaxAttempts
    /\ alloc.live
    /\ i \in 1..Len(boxes)
    /\ boxes[i].live
    /\ LET a == aspawn(stack_impl, boxes[i].ptr, f, ret, pid)
           th == aspawn_thread(caller.sigmask, caller.cancel, ret)
           r == avfork(a.ret, a.pid)
       IN  /\ fdtab' = a.fds
           /\ pipe' = a.pipe
           /\ child' = a.child
           /\ caller' = [pc |-> IF r.ok THEN "spawned" ELSE "panicked",
                         n |-> caller.n + 1, ret |-> a.ret, fd |-> r.fd,
                         pid |-> r.pid, res |-> NoRead, err |-> r.errno,
                         sigmask |-> th.sigmask, cancel |-> th.cancel]

\* avfork(&allocator, f.pin()) with the callback f in StackBox i; the caller
\* unwraps the result
Avfork(i, f, ret, pid) ==
    /\ UNCHANGED notFork
    /\ caller.pc = "loop"
    /\ caller.n < MaxAttempts
    /\ alloc.live
    /\ i \in 1..Len(boxes)
    /\ boxes[i].live
    /\ LET a == aspawn(alloc.stack, boxes[i].ptr, f, ret, pid)
           th == aspawn_thread(caller.sigmask, caller.cancel, ret)
           r == avfork(a.ret, a.pid)
       IN  /\ fdtab' = a.fds
           /\ pipe' = a.pipe
           /\ child' = a.child
           /\ caller' = [pc |-> IF r.ok THEN "spawned" ELSE "panicked",
                         n |-> caller.n + 1, ret |-> a.ret, fd |-> r.fd,
                         pid |-> r.pid, res |-> NoRead, err |-> r.errno,
                         sigmask |-> th.sigmask, cancel |-> th.cancel]

\* the caller changes the signal mask of its thread between two attempts,
\* as SigChldFd::new does when it blocks SIGCHLD
SetMask(m) ==
    /\ UNCHANGED notFork
    /\ caller.pc = "loop"
    /\ caller.sigmask # m
    /\ caller' = [caller EXCEPT !.sigmask = m]
    /\ UNCHANGED <<fdtab, pipe, child>>

\* the callback writes its error payload to the write end
ChildWrite ==
    /\ UNCHANGED notFork
    /\ child.st = "callback"
    /\ child.f.writes
    /\ ~child.wrote
    /\ pipe' = [pipe EXCEPT !.buf = Append(@, 1)]
    /\ child' = [child EXCEPT !.wrote = TRUE]
    /\ UNCHANGED <<fdtab, caller>>

\* the callback execs: close-on-exec closes the write end
ChildExec ==
    /\ UNCHANGED notFork
    /\ child.st = "callback"
    /\ child.f.ends = "exec"
    /\ child.f.writes => child.wrote
    /\ child' = [child EXCEPT !.st = "execd"]
    /\ pipe' = [pipe EXCEPT !.writers = {}]
    /\ UNCHANGED <<fdtab, caller>>

\* the callback returns and the child exits: all its fds are closed
ChildExit ==
    /\ UNCHANGED notFork
    /\ child.st = "callback"
    /\ child.f.ends = "exit"
    /\ child.f.writes => child.wrote
    /\ child' = [child EXCEPT !.st = "exited"]
    /\ pipe' = [pipe EXCEPT !.writers = {}]
    /\ UNCHANGED <<fdtab, caller>>

\* fd.read(&mut buf) with a buffer of one byte; the caller takes Ok(0) and
\* panics on anything else
Read ==
    /\ UNCHANGED notFork
    /\ caller.pc = "spawned"
    /\ LET k == psys_read(caller.fd, fdtab, pipe)
           r == toResult(k.ret)
       IN  /\ ~k.blocks
           /\ pipe' = k.pipe
           /\ caller' = [caller EXCEPT
                 !.res = r,
                 !.pc = IF r.ok /\ r.v = 0 THEN "read_done" ELSE "panicked"]
    /\ UNCHANGED <<fdtab, child>>

\* Drop for FdBox at the end of the attempt: the read end is closed
CloseFd ==
    /\ UNCHANGED notFork
    /\ caller.pc = "read_done"
    /\ fdtab' = fdtab \ {caller.fd}
    /\ caller' = [caller EXCEPT !.pc = "loop", !.fd = 0 - 1, !.res = NoRead]
    /\ UNCHANGED <<pipe, child>>

\* a caller spawning time and again on one Stack, as test_callback does with
\* a callback that is a fn item (a zero sized type):
\* reserve, alloc_obj of the callback, avfork, read, drop everything
ForkNext ==
    \/ \E c \in Caps, e \in {0, 12}, a \in MapAddrs : Reserve(0, c, e, a)
    \/ AllocObj(Zst, 1)
    \/ \E i \in 1..MaxCalls : DropBox(i)
    \/ DropAllocator
    \/ \E i \in 1..MaxCalls, f \in Callbacks, ret \in AspawnRets,
          pid \in ChildPids : Avfork(i, f, ret, pid)
    \/ \E m \in CallerMasks : SetMask(m)
    \/ ChildWrite
    \/ ChildExec
    \/ ChildExit
    \/ Read
    \/ CloseFd

\* a caller that places objects of every type, the callback among them, and
\* then calls avfork
ArenaForkNext ==
    \/ \E c \in Caps, a \in MapAddrs : Reserve(0, c, 0, a)
    \/ \E T \in Types : AllocObj(T, 1)
    \/ \E i \in 1..MaxCalls : DropBox(i)
    \/ \E i \in 1..MaxCalls, f \in Callbacks, ret \in AspawnRets,
          pid \in ChildPids : Avfork(i, f, ret, pid)

(***************************************************************************)
(* StacksQueue: the pool of Stacks                                         *)
(***************************************************************************)
Threads == 1..MaxThreads
\* a Stack, told from the others by the order of construction
NewStack(id) == [id |-> id, stack_impl |-> NullStack]
NoGet == [thread |-> 0, pooled |-> FALSE, ret |-> 0, made |-> {},
          dropped |-> {}]

PoolInit ==
    /\ queue = <<>>
    /\ held = [t \in Threads |-> {}]
    /\ made = 0
    /\ gone = {}
    /\ lastget = NoGet

\* SegQueue::pop: the oldest element is removed, or there is none
QUEUE_pop(q) ==
    IF q = <<>>
    THEN [some |-> FALSE, v |-> NewStack(0), q |-> q]
    ELSE [some |-> TRUE, v |-> Head(q), q |-> Tail(q)]

\* mutant: the pooled Stack is returned and stays in the queue
get_LeavesPooled(q, fresh) ==
    LET r == QUEUE_pop(q)
    IN  [queue |-> q,
         ret |-> IF r.some THEN r.v ELSE fresh,
         pooled |-> r.some,
         made |-> {fresh.id},
         dropped |-> IF r.some THEN {fresh.id} ELSE {}]

\* get: QUEUE.pop().unwrap_or(Stack::new()).  The argument of unwrap_or is
\* evaluated before unwrap_or is called: fresh is constructed by every get,
\* and dropped again when the pop gave a Stack
get(q, fresh) ==
    LET r == QUEUE_pop(q)
    IN  [queue |-> r.q,
         ret |-> IF r.some THEN r.v ELSE fresh,
         pooled |-> r.some,
         made |-> {fresh.id},
         dropped |-> IF r.some THEN {fresh.id} ELSE {}]

\* put: QUEUE.push(stack)
put(q, stack) == Append(q, stack)

\* thread t calls StacksQueue::get()
Get(t) ==
    /\ UNCHANGED notPool
    /\ made < MaxStacks
    /\ LET r == get(queue, NewStack(made + 1))
       IN  /\ queue' = r.queue
           /\ held' = [held EXCEPT ![t] = @ \cup {r.ret}]
           /\ made' = made + Cardinality(r.made)
           /\ gone' = gone \cup r.dropped
           /\ lastget' = [thread |-> t, pooled |-> r.pooled, ret |-> r.ret.id,
                          made |-> r.made, dropped |-> r.dropped]

\* thread t calls StacksQueue::put(stack) with a Stack it owns
Put(t, stack) ==
    /\ UNCHANGED notPool
    /\ stack \in held[t]
    /\ queue' = put(queue, stack)
    /\ held' = [held EXCEPT ![t] = @ \ {stack}]
    /\ UNCHANGED <<made, gone, lastget>>

\* thread t reserves on a Stack it owns (and lets the allocator go again)
ReserveHeld(t, stack, reserved_obj_sz, addr) ==
    /\ UNCHANGED notPool
    /\ stack \in held[t]
    /\ LET st == reserve_stack(stack.stack_impl, 0, reserved_obj_sz, addr)
       IN  /\ st # stack.stack_impl
           /\ held' = [held EXCEPT ![t] =
                          (@ \ {stack}) \cup {[stack EXCEPT !.stack_impl = st]}]
    /\ UNCHANGED <<queue, made, gone, lastget>>

\* thread t drops a Stack it owns
DropStack(t, stack) ==
    /\ UNCHANGED notPool
    /\ stack \in held[t]
    /\ held' = [held EXCEPT ![t] = @ \ {stack}]
    /\ gone' = gone \cup {stack.id}
    /\ UNCHANGED <<queue, made, lastget>>

PoolNext ==
    \/ \E t \in Threads : Get(t)
    \/ \E t \in Threads : \E stack \in held[t] : Put(t, stack)
    \/ \E t \in Threads : \E stack \in held[t], a \in MapAddrs :
          ReserveHeld(t, stack, 8 * MaxN, a)
    \/ \E t \in Threads : \E stack \in held[t] : DropStack(t, stack)

(***************************************************************************)
(* autorestart                                                             *)
(***************************************************************************)
Ok(v) == [ok |-> TRUE, v |-> v, errno |-> 0]
Err(errno) == [ok |-> FALSE, v |-> 0, errno |-> errno]
\* what a call of the closure can return: Ok, EINTR, or another error
\* (EBADF, EAGAIN)
FResults == {Ok(1), Err(EINTR), Err(9), Err(11)}
Scripts == UNION {[1..n -> FResults] : n \in 1..MaxLen}
NoCall == [pc |-> "idle", ncalls |-> 0, ret |-> Ok(0)]

\* no call of autorestart is under way
RestartIdle ==
    /\ script = <<>>
    /\ ar = NoCall

\* autorestart(f) is entered with a closure that follows one of the scripts
RestartInit ==
    /\ script \in Scripts
    /\ ar = [pc |-> "loop", ncalls |-> 0, ret |-> Ok(0)]

\* the k-th call of the closure: it follows its script, and a closure whose
\* script is used up keeps returning EINTR
f(s, k) == IF k <= Len(s) THEN s[k] ELSE Err(EINTR)

\* mutant: every error is retried
IsRestart_AnyError(ret) == ~ret.ok

\* if let Err(err) = &ret { if err.get_errno() == libc::EINTR { continue } }
IsRestart(ret) == ~ret.ok /\ ret.errno = EINTR

\* one round of the loop of autorestart: f is called, and its result is
\* returned unless it is Err(EINTR).  Calls beyond MaxLen + 1 are not counted.
AutorestartLoop ==
    /\ UNCHANGED notRestart
    /\ ar.pc = "loop"
    /\ LET n == IF ar.ncalls > MaxLen THEN ar.ncalls ELSE ar.ncalls + 1
           ret == f(script, ar.ncalls + 1)
       IN  ar' = IF IsRestart(ret)
                 THEN [ar EXCEPT !.ncalls = n]
                 ELSE [pc |-> "done", ncalls |-> n, ret |-> ret]
    /\ UNCHANGED script

RestartNext == AutorestartLoop

(***************************************************************************)
(* execvel, fexecvel                                                       *)
(***************************************************************************)
\* what execve can answer for one constructed path: 0 when the file is
\* executed (the call does not return then), else the errno: one of those
\* the search goes past, or another one (ENOEXEC, ENOMEM)
ExecveAnswers == {0, EACCES, ENOENT, ESTALE, ENOTDIR, ENODEV, ETIMEDOUT, 8, 12}
\* ExecvelCandidate::new and FexecvelCandidate::new refuse an empty paths
Outcomes == UNION {[1..n -> ExecveAnswers] : n \in 1..MaxPaths}
ExecFns == {"execvel", "fexecvel"}
NoExec ==
    [fn |-> "none", pc |-> "idle", i |-> 0, got_eaccess |-> FALSE,
     tried |-> <<>>, ret |-> 0]

\* no call of execvel or fexecvel is under way
ExecIdle ==
    /\ outcomes = <<>>
    /\ ex = NoExec

\* execvel or fexecvel is entered with a candidate of Len(outcomes) paths
ExecInit ==
    /\ outcomes \in Outcomes
    /\ ex \in {[fn |-> g, pc |-> "loop", i |-> 1, got_eaccess |-> FALSE,
                 tried |-> <<>>, ret |-> 0] : g \in ExecFns}

\* mutant: a permission-denied candidate is passed without being recorded
match_errno_ForgetsEacces(errno, got_eaccess) ==
    IF errno \in {EACCES, ENOENT, ESTALE, ENOTDIR, ENODEV, ETIMEDOUT}
    THEN [continue |-> TRUE, got_eaccess |-> got_eaccess]
    ELSE [continue |-> FALSE, got_eaccess |-> got_eaccess]

\* match err.get_errno() as i32 { ... }: whether the loop continues, and
\* got_eaccess after it
match_errno(errno, got_eaccess) ==
    IF errno = EACCES
    THEN [continue |-> TRUE, got_eaccess |-> TRUE]
    ELSE IF errno \in {ENOENT, ESTALE, ENOTDIR, ENODEV, ETIMEDOUT}
         THEN [continue |-> TRUE, got_eaccess |-> got_eaccess]
         ELSE [continue |-> FALSE, got_eaccess |-> got_eaccess]

\* if got_eaccess { EACCES } else { ENOENT }, returned after the loop
search_failed(got_eaccess) == IF got_eaccess THEN EACCES ELSE ENOENT

\* one round of the loop over the paths, with the return that follows the
\* last round: the file under path x.i is executed, the kernel answering
\* ret; an answer that is not an error means the program was replaced
search_round(x, ret, npaths) ==
    LET err == toResult(ret)
        m == match_errno(err.errno, x.got_eaccess)
        t == Append(x.tried, x.i)
    IN  IF err.ok
        THEN [x EXCEPT !.pc = "execed", !.tried = t]
        ELSE IF ~m.continue
        THEN [x EXCEPT !.pc = "returned", !.tried = t, !.ret = err.errno]
        ELSE IF x.i < npaths
        THEN [x EXCEPT !.i = x.i + 1, !.tried = t,
                       !.got_eaccess = m.got_eaccess]
        ELSE [x EXCEPT !.pc = "returned", !.tried = t,
                       !.got_eaccess = m.got_eaccess,
                       !.ret = search_failed(m.got_eaccess)]

\* execvel: psys_execve on the path constructed from the next search path
ExecvelLoop ==
    /\ UNCHANGED notExec
    /\ ex.fn = "execvel"
    /\ ex.pc = "loop"
    /\ ex' = search_round(ex, 0 - outcomes[ex.i], Len(outcomes))
    /\ UNCHANGED outcomes

\* fexecvel: execveat on the next directory fd
FexecvelLoop ==
    /\ UNCHANGED notExec
    /\ ex.fn = "fexecvel"
    /\ ex.pc = "loop"
    /\ ex' = search_round(ex, 0 - outcomes[ex.i], Len(outcomes))
    /\ UNCHANGED outcomes

ExecNext == ExecvelLoop \/ FexecvelLoop

(***************************************************************************)
(* The child of avfork and avfork_rec                                      *)
(***************************************************************************)
\* what a signal does when it is delivered
Dispositions == {"SIG_DFL", "SIG_IGN", "handler"}
\* where alloc_obj places a first object in a freshly reserved region
ArenaAddrs ==
    {alloc_obj(StackObjectAllocator_new(reserve_stack(NullStack, 0, c, a), c),
               T, 0).val :
        c \in Caps \ {0}, a \in MapAddrs, T \in {Zst, U64}}
NoSpawner ==
    [pc |-> "idle", entry |-> "none", sigmask |-> {},
     handlers |-> [s \in Signals |-> "SIG_DFL"], func |-> 0,
     old_sigset |-> {}]
NoCb ==
    [pc |-> "none", sigmask |-> {},
     handlers |-> [s \in Signals |-> "SIG_DFL"], arg |-> 0,
     write_end_fd |-> 0 - 1, old_sigset |-> {}, calls |-> <<>>]

\* no call of avfork or avfork_rec is followed into its child
ChildIdle ==
    /\ spawner = NoSpawner
    /\ cb = NoCb

\* a thread is about to call avfork(alloc, func) or, with a sigset of its
\* choice, avfork_rec(alloc, func, old_sigset); func was placed in the arena
ChildInit ==
    /\ spawner \in
          [pc : {"call"}, entry : {"avfork"}, sigmask : SUBSET Signals,
           handlers : [Signals -> Dispositions], func : ArenaAddrs,
           old_sigset : {{}}]
          \cup
          [pc : {"call"}, entry : {"avfork_rec"}, sigmask : SUBSET Signals,
           handlers : [Signals -> Dispositions], func : ArenaAddrs,
           old_sigset : SUBSET Signals]
    /\ cb = NoCb

\* avfork: aspawn(&mut pid, &stack, callback, to_void_ptr(func_ref))
avfork_args(func_ref) ==
    [arg |-> func_ref, rec |-> FALSE, old_sigset |-> {}]

\* mutant: the sigset of the caller is not handed on
avfork_rec_args_DropsSigset(func_ref, old_sigset) ==
    [arg |-> func_ref, rec |-> TRUE, old_sigset |-> {}]

\* avfork_rec: aspawn_rec(&mut pid, &stack, callback, arg,
\* to_void_ptr(old_sigset))
avfork_rec_args(func_ref, old_sigset) ==
    [arg |-> func_ref, rec |-> TRUE, old_sigset |-> old_sigset]

\* the child as aspawn and aspawn_rec make it: it inherits the mask the
\* thread has during the call (all signals) and the handlers of the
\* process; it is to call the callback with arg, the write end of the
\* pipe and the mask saved before the call or, for aspawn_rec, the sigset
\* passed in
aspawn_child(args, th, write_end_fd, handlers) ==
    [pc |-> "cloned", sigmask |-> th.during.sigmask, handlers |-> handlers,
     arg |-> args.arg, write_end_fd |-> write_end_fd,
     old_sigset |-> IF args.rec THEN args.old_sigset ELSE th.old_sigset,
     calls |-> <<>>]

\* the child resets every signal handler to the default
reset_handlers(handlers) == [s \in DOMAIN handlers |-> "SIG_DFL"]

\* aspawn_fn::<Func>: func = &*(arg as *const Func), and
\* func(Fd::from_raw(write_end_fd), &mut *old_sigset); the call is recorded
\* with the mask and the handlers it runs under
aspawn_fn(c) ==
    [func |-> c.arg, fd |-> c.write_end_fd, old_sigset |-> c.old_sigset,
     sigmask |-> c.sigmask, handlers |-> c.handlers]

\* avfork or avfork_rec is called and aspawn makes the child (ret >= 0,
\* the child holding the write end as fd ret + 1), or fails
SpawnCall(ret) ==
    /\ UNCHANGED notChild
    /\ spawner.pc = "call"
    /\ LET args == IF spawner.entry = "avfork"
                   THEN avfork_args(spawner.func)
                   ELSE avfork_rec_args(spawner.func, spawner.old_sigset)
           th == aspawn_thread(spawner.sigmask, "enabled", ret)
       IN  IF toResult(ret).ok
           THEN /\ cb' = aspawn_child(args, th, ret + 1, spawner.handlers)
                /\ spawner' = [spawner EXCEPT !.pc = "spawned",
                                              !.sigmask = th.sigmask]
           ELSE /\ spawner' = [spawner EXCEPT !.pc = "failed",
                                              !.sigmask = th.sigmask]
                /\ UNCHANGED cb

\* the child, before it calls the callback
ResetHandlers ==
    /\ UNCHANGED notChild
    /\ cb.pc = "cloned"
    /\ cb' = [cb EXCEPT !.pc = "reset", !.handlers = reset_handlers(@)]
    /\ UNCHANGED spawner

\* the child calls aspawn_fn, which calls the callback
AspawnFn ==
    /\ UNCHANGED notChild
    /\ cb.pc = "reset"
    /\ cb' = [cb EXCEPT !.pc = "callback", !.calls = Append(@, aspawn_fn(cb))]
    /\ UNCHANGED spawner

\* the callback has exec'd, or it has returned and the child exits with
\* what it returned
CallbackEnds(how) ==
    /\ UNCHANGED notChild
    /\ cb.pc = "callback"
    /\ cb' = [cb EXCEPT !.pc = how]
    /\ UNCHANGED spawner

ChildNext ==
    \/ \E ret \in AspawnRets : SpawnCall(ret)
    \/ ResetHandlers
    \/ AspawnFn
    \/ \E how \in {"execd", "exited"} : CallbackEnds(how)

(***************************************************************************)
(* SigChldFd::new                                                          *)
(***************************************************************************)
\* what a failing step leaves in errno (ENOMEM, EINVAL, EMFILE)
NewErrnos == {12, 22, 24}
NoCtor ==
    [pc |-> "idle", n |-> 0, mask |-> {}, fd |-> 0 - 1, ret |-> "none",
     err |-> 0]

\* SigChldFd::new has not been called, on a thread that blocks no signal
NewIdle ==
    /\ blocked = {}
    /\ sigfds = {}
    /\ readers = {}
    /\ ctor = NoCtor

\* SigChldFd::new has not been called yet
NewInit ==
    /\ blocked \in SUBSET Signals
    /\ sigfds = {}
    /\ readers = {}
    /\ ctor = NoCtor

\* return Err(Error::last_os_error())
NewErr(e) == [ctor EXCEPT !.pc = "idle", !.ret = "Err", !.err = e]

\* the kernel hands out the lowest fd that is not open; 0, 1 and 2 are
LowestFd(open) ==
    CHOOSE fd \in 3..(3 + MaxNew) :
        /\ fd \notin {x.fd : x \in open}
        /\ \A g \in 3..(fd - 1) : g \in {x.fd : x \in open}

\* mutant: the signals of the set are unblocked
sigprocmask_Unblocks(old, set) == old \ set

\* sigprocmask(SIG_BLOCK, &mask, null): the set is added to the blocked
\* signals
sigprocmask(old, set) == old \cup set

\* new() is entered
NewCall ==
    /\ UNCHANGED notNew
    /\ ctor.pc = "idle"
    /\ ctor.n < MaxNew
    /\ ctor' = [pc |-> "sigemptyset", n |-> ctor.n + 1, mask |-> {},
                fd |-> 0 - 1, ret |-> "none", err |-> 0]
    /\ UNCHANGED <<blocked, sigfds, readers>>

\* sigemptyset(mask)
Sigemptyset(e) ==
    /\ UNCHANGED notNew
    /\ ctor.pc = "sigemptyset"
    /\ ctor' = IF e # 0 THEN NewErr(e)
               ELSE [ctor EXCEPT !.pc = "sigaddset", !.mask = {}]
    /\ UNCHANGED <<blocked, sigfds, readers>>

\* sigaddset(mask, SIGCHLD)
Sigaddset(e) ==
    /\ UNCHANGED notNew
    /\ ctor.pc = "sigaddset"
    /\ ctor' = IF e # 0 THEN NewErr(e)
               ELSE [ctor EXCEPT !.pc = "sigprocmask",
                                 !.mask = @ \cup {"SIGCHLD"}]
    /\ UNCHANGED <<blocked, sigfds, readers>>

\* sigprocmask(SIG_BLOCK, &mask, null)
Sigprocmask(e) ==
    /\ UNCHANGED notNew
    /\ ctor.pc = "sigprocmask"
    /\ IF e # 0
       THEN ctor' = NewErr(e) /\ UNCHANGED blocked
       ELSE /\ blocked' = sigprocmask(blocked, ctor.mask)
            /\ ctor' = [ctor EXCEPT !.pc = "signalfd"]
    /\ UNCHANGED <<sigfds, readers>>

\* signalfd(-1, &mask, SFD_NONBLOCK | SFD_CLOEXEC), and the FdBox made of
\* the fd
Signalfd(e) ==
    /\ UNCHANGED notNew
    /\ ctor.pc = "signalfd"
    /\ IF e # 0
       THEN ctor' = NewErr(e) /\ UNCHANGED sigfds
       ELSE LET fd == LowestFd(sigfds)
            IN  /\ sigfds' = sigfds \cup
                      {[fd |-> fd, mask |-> ctor.mask, nonblock |-> TRUE,
                        cloexec |-> TRUE, registered |-> FALSE]}
                /\ ctor' = [ctor EXCEPT !.pc = "with_interest", !.fd = fd]
    /\ UNCHANGED <<blocked, readers>>

\* AsyncFd::with_interest(fd, Interest::READABLE)?: the fd is registered
\* with the I/O driver; when that fails the FdBox is dropped, which closes
\* the fd
WithInterest(e) ==
    /\ UNCHANGED notNew
    /\ ctor.pc = "with_interest"
    /\ IF e # 0
       THEN /\ sigfds' = {x \in sigfds : x.fd # ctor.fd}
            /\ ctor' = NewErr(e)
       ELSE /\ sigfds' = {IF x.fd = ctor.fd
                            THEN [x EXCEPT !.registered = TRUE] ELSE x :
                          x \in sigfds}
            /\ ctor' = [ctor EXCEPT !.pc = "spawn"]
    /\ UNCHANGED <<blocked, readers>>

\* tokio::spawn(async move { sigfd.read().await }), and new() returns Ok
Spawn ==
    /\ UNCHANGED notNew
    /\ ctor.pc = "spawn"
    /\ readers' = readers \cup {[id |-> ctor.n, fd |-> ctor.fd]}
    /\ ctor' = [ctor EXCEPT !.pc = "idle", !.ret = "Ok"]
    /\ UNCHANGED <<blocked, sigfds>>

NewNext ==
    \/ NewCall
    \/ \E e \in {0} \cup NewErrnos : Sigemptyset(e)
    \/ \E e \in {0} \cup NewErrnos : Sigaddset(e)
    \/ \E e \in {0} \cup NewErrnos : Sigprocmask(e)
    \/ \E e \in {0} \cup NewErrnos : Signalfd(e)
    \/ \E e \in {0} \cup NewErrnos : WithInterest(e)
    \/ Spawn

(***************************************************************************)
(* ExitInfo                                                                *)
(***************************************************************************)
None == [some |-> FALSE, v |-> 0]
Some(x) == [some |-> TRUE, v |-> x]

\* libc's macros on a c_int status
WIFEXITED(status) == (status % 128) = 0
WEXITSTATUS(status) == (status \div 256) % 256
WIFSIGNALED(status) ==
    LET x == (status % 128) + 1
        as_i8 == IF x >= 128 THEN x - 256 ELSE x
    IN  as_i8 >= 2
WTERMSIG(status) == status % 128

get_exit_status(info) ==
    IF WIFEXITED(info.wstatus) THEN Some(WEXITSTATUS(info.wstatus)) ELSE None

get_term_sig(info) ==
    IF WIFSIGNALED(info.wstatus) THEN Some(WTERMSIG(info.wstatus)) ELSE None

\* every way a child can end: _exit with a code of 8 bits, or a signal that
\* kills it with or without a core dump
SigInfos ==
    [si_pid : Pids, si_uid : {0}, si_status : 0..255, si_code : {CLD_EXITED},
     si_utime : {0}, si_stime : {0}]
    \cup
    [si_pid : Pids, si_uid : {0}, si_status : 1..64,
     si_code : {CLD_KILLED, "CLD_DUMPED"}, si_utime : {0}, si_stime : {0}]
NoSigInfo ==
    [si_pid |-> 0, si_uid |-> 0, si_status |-> 0, si_code |-> "",
     si_utime |-> 0, si_stime |-> 0]

\* no child has been reaped
InfoIdle ==
    /\ siginfo = NoSigInfo
    /\ exitinfo = NoInfo

\* waitid has returned Some(siginfo) for a child
InfoInit ==
    /\ siginfo \in SigInfos
    /\ exitinfo = NoInfo

\* the body of the while let loop of read(): the ExitInfo that is inserted
InsertExitInfo ==
    /\ UNCHANGED notInfo
    /\ siginfo # NoSigInfo
    /\ exitinfo = NoInfo
    /\ exitinfo' = MakeExitInfo(siginfo)
    /\ UNCHANGED siginfo

InfoNext == InsertExitInfo

(***************************************************************************)
(* Filename, ExecvelCandidate and the path execvel constructs              *)
(***************************************************************************)
\* filenames as Filename::new sees them: the length of to_bytes() and
\* whether one of the bytes is a slash
FilenameInputs ==
    {[len |-> n, slash |-> b] :
        n \in {0, 1, FILENAME_MAX, FILENAME_MAX + 1}, b \in BOOLEAN} \
    {[len |-> 0, slash |-> TRUE]}
\* lengths of a search path: empty, short, and around the longest that a
\* filename of FILENAME_MAX bytes or of one byte leaves room for
PathLens ==
    {0, 1, PATH_MAX - FILENAME_MAX - 2, PATH_MAX - FILENAME_MAX - 1,
     PATH_MAX - 3, PATH_MAX - 2}
PathLists == UNION {[1..n -> PathLens] : n \in 0..MaxPaths}
NoCand ==
    [pc |-> "idle", filename |-> [len |-> 0, slash |-> FALSE],
     paths |-> <<>>, i |-> 0]

\* no candidate is being made
PathIdle ==
    /\ cand = NoCand
    /\ written = <<>>

\* a filename and a list of search paths are given
PathInit ==
    /\ cand \in [pc : {"filename"}, filename : FilenameInputs,
                  paths : PathLists, i : {0}]
    /\ written = <<>>

\* Filename::new: Some unless the name is empty, longer than FILENAME_MAX
\* or holds a slash
Filename_new(filename) ==
    ~(filename.len = 0 \/ filename.len > FILENAME_MAX) /\ ~filename.slash

\* mutant: the two bytes for the slash and the null byte are not counted
ExecvelCandidate_new_NoSlack(filename_sz, paths) ==
    /\ paths # <<>>
    /\ \A k \in DOMAIN paths :
          ~(paths[k] = 0 \/ filename_sz + paths[k] > PATH_MAX)

\* ExecvelCandidate::new: Some unless paths is empty, or a path is empty or
\* leaves no room for the slash, the filename and the null byte
ExecvelCandidate_new(filename_sz, paths) ==
    /\ paths # <<>>
    /\ \A k \in DOMAIN paths :
          ~(paths[k] = 0 \/ filename_sz + paths[k] + 2 > PATH_MAX)

\* the writes of one round of execvel, each by its offset in
\* constructed_path and its size: pmemcpy(0, path, path_sz), the slash at
\* path_sz, pmemcpy(path_sz + 1, filename, filename_sz), and the null byte
construct_path(path_sz, filename_sz) ==
    <<[offset |-> 0, size |-> path_sz],
      [offset |-> path_sz, size |-> 1],
      [offset |-> path_sz + 1, size |-> filename_sz],
      [offset |-> path_sz + 1 + filename_sz, size |-> 1]>>

\* Filename::new(filename)
FilenameNew ==
    /\ UNCHANGED notPath
    /\ cand.pc = "filename"
    /\ cand' = [cand EXCEPT !.pc = IF Filename_new(cand.filename)
                                   THEN "candidate" ELSE "none"]
    /\ UNCHANGED written

\* ExecvelCandidate::new(filename, paths)
CandidateNew ==
    /\ UNCHANGED notPath
    /\ cand.pc = "candidate"
    /\ cand' = [cand EXCEPT
          !.pc = IF ExecvelCandidate_new(cand.filename.len, cand.paths)
                 THEN "execvel" ELSE "none",
          !.i = 1]
    /\ UNCHANGED written

\* execvel: the path of the next round is constructed (the execve of that
\* round fails with an errno the search goes past)
ConstructPath ==
    /\ UNCHANGED notPath
    /\ cand.pc = "execvel"
    /\ written' = written \o construct_path(cand.paths[cand.i],
                                             cand.filename.len)
    /\ cand' = IF cand.i < Len(cand.paths)
               THEN [cand EXCEPT !.i = cand.i + 1]
               ELSE [cand EXCEPT !.pc = "returned"]

PathNext == FilenameNew \/ CandidateNew \/ ConstructPath

(***************************************************************************)
(* SyscallError                                                            *)
(***************************************************************************)
\* the errnos a SyscallError is made with: SyscallError::new takes any u32;
\* those around the table and two large ones stand for all
Errnos == 0..(errno_msgs_sz + 3) \cup {65535, 2147483647}
NoErr == [errno |-> 0 - 1]

\* no SyscallError is looked at
MsgIdle ==
    /\ serr = NoErr
    /\ msgs = <<>>

\* SyscallError::new(errno)
MsgInit ==
    /\ serr \in [errno : Errnos]
    /\ msgs = <<>>

\* get_errno_msgs()[i]: the i-th message of the table, or the panic of an
\* index out of bounds
errno_msgs_at(i) ==
    IF i \in 0..(errno_msgs_sz - 1)
    THEN [kind |-> "msg", i |-> i]
    ELSE [kind |-> "panic", i |-> i]

\* get_msg: (self.errno as usize) - 1 overflows for errno 0, which panics
\* where overflow is checked and otherwise wraps to an index beyond the
\* table
get_msg(self) ==
    IF self.errno <= errno_msgs_sz
    THEN IF self.errno - 1 < 0
         THEN [kind |-> "panic", i |-> self.errno - 1]
         ELSE errno_msgs_at(self.errno - 1)
    ELSE [kind |-> "unknown", i |-> 0]

\* err.get_msg()
GetMsg ==
    /\ UNCHANGED notMsg
    /\ serr # NoErr
    /\ Len(msgs) < MaxGets
    /\ msgs' = Append(msgs, get_msg(serr))
    /\ UNCHANGED serr

MsgNext == GetMsg

(***************************************************************************)
(* Specifications                                                          *)
(***************************************************************************)
Init ==
    ArenaInit /\ SigInit /\ ForkInit /\ PoolInit /\ RestartIdle /\
    ExecIdle /\ NewIdle /\ ChildIdle /\ InfoIdle /\ MsgIdle /\ PathIdle

\* the arena allocator
Spec == Init /\ [][ArenaNext]_vars

\* the exit notification subsystem.  The executor runs every task that can
\* run: the I/O driver, the reap task and the woken waiters.
SigFair ==
    /\ WF_vars(Driver)
    /\ WF_vars(ReadableAwait)
    /\ WF_vars(TryIo)
    /\ WF_vars(WaitidNone \/ WaitidFails \/ \E c \in Kids : WaitidReaps(c))
    /\ \A t \in Tasks : WF_vars(WaitWake(t))
SigSpec == Init /\ [][SigNext]_vars /\ SigFair

\* avfork and the completion pipe.  The kernel runs the child, whose
\* callback terminates, and the caller's thread goes on.
ForkFair ==
    /\ WF_vars(ChildWrite \/ ChildExec \/ ChildExit)
    /\ WF_vars(Read)
ForkSpec == Init /\ [][ForkNext]_vars /\ ForkFair

\* avfork on an allocator that holds objects of every type
ArenaForkSpec == Init /\ [][ArenaForkNext]_vars

\* the pool of Stacks used by several threads
PoolSpec == Init /\ [][PoolNext]_vars

\* autorestart(f), for every scripted closure f; the thread that called it
\* keeps running
InitAutorestart ==
    ArenaInit /\ SigInit /\ ForkInit /\ PoolInit /\ RestartInit /\
    ExecIdle /\ NewIdle /\ ChildIdle /\ InfoIdle /\ MsgIdle /\ PathIdle
RestartSpec ==
    InitAutorestart /\ [][RestartNext]_vars /\ WF_vars(AutorestartLoop)

\* execvel and fexecvel, for every candidate with up to MaxPaths search
\* paths and every answer of the kernel to each execve
InitExec ==
    ArenaInit /\ SigInit /\ ForkInit /\ PoolInit /\ RestartIdle /\
    ExecInit /\ NewIdle /\ ChildIdle /\ InfoIdle /\ MsgIdle /\ PathIdle
ExecSpec == InitExec /\ [][ExecNext]_vars

\* SigChldFd::new, called up to MaxNew times on a thread that has any of
\* the signals blocked, each step of it succeeding or failing
InitNew ==
    ArenaInit /\ SigInit /\ ForkInit /\ PoolInit /\ RestartIdle /\
    ExecIdle /\ NewInit /\ ChildIdle /\ InfoIdle /\ MsgIdle /\ PathIdle
NewSpec == InitNew /\ [][NewNext]_vars

\* the child of one avfork or avfork_rec, for every mask and every handlers
\* of the calling thread and every callback placed in the arena
InitChild ==
    ArenaInit /\ SigInit /\ ForkInit /\ PoolInit /\ RestartIdle /\
    ExecIdle /\ NewIdle /\ ChildInit /\ InfoIdle /\ MsgIdle /\ PathIdle
ChildSpec == InitChild /\ [][ChildNext]_vars

\* the ExitInfo of one exited child, for every exit code and every signal
InitInfo ==
    ArenaInit /\ SigInit /\ ForkInit /\ PoolInit /\ RestartIdle /\
    ExecIdle /\ NewIdle /\ ChildIdle /\ InfoInit /\ MsgIdle /\ PathIdle
InfoSpec == InitInfo /\ [][InfoNext]_vars

\* get_msg, called up to MaxGets times on a SyscallError of any errno
InitMsg ==
    ArenaInit /\ SigInit /\ ForkInit /\ PoolInit /\ RestartIdle /\
    ExecIdle /\ NewIdle /\ ChildIdle /\ InfoIdle /\ MsgInit /\ PathIdle
MsgSpec == InitMsg /\ [][MsgNext]_vars

\* Filename::new, ExecvelCandidate::new and the paths execvel constructs,
\* for filenames and up to MaxPaths search paths of every length at the
\* limits
InitPath ==
    ArenaInit /\ SigInit /\ ForkInit /\ PoolInit /\ RestartIdle /\
    ExecIdle /\ NewIdle /\ ChildIdle /\ InfoIdle /\ MsgIdle /\ PathInit
PathSpec == InitPath /\ [][PathNext]_vars

(***************************************************************************)
(* Claims about the arena allocator, checked under Spec.                   *)
(***************************************************************************)
RECURSIVE SumSizes(_)
SumSizes(bs) == IF bs = <<>> THEN 0 ELSE bs[1].size + SumSizes(Tail(bs))

\* the aligned sizes of the calls before the k-th that succeeded
RECURSIVE PlacedBefore(_)
PlacedBefore(k) ==
    IF k <= 1 THEN 0
    ELSE PlacedBefore(k - 1)
         + (IF calls[k - 1].ok THEN RoundedSize(calls[k - 1].ty) ELSE 0)

\* C1: the aligned sizes of the objects an allocator has placed add up to
\* its allocated-bytes counter, and that total never exceeds the capacity
\* the allocator was reserved with.
C1_AllocatedWithinCapacity ==
    /\ SumSizes(boxes) = alloc.alloc_obj_sz
    /\ alloc.alloc_obj_sz <= alloc.reserved_obj_sz

\* C1 witness: an allocator filled to its capacity by two objects, whose
\* next alloc_obj was refused
C1_Witness ==
    /\ alloc.live
    /\ Len(boxes) >= 2
    /\ alloc.alloc_obj_sz = alloc.reserved_obj_sz
    /\ last.op = "alloc_obj" /\ ~last.ok

\* a step that is an alloc_obj call of an object that does not fit
IsRefusedCall ==
    /\ Len(calls') = Len(calls) + 1
    /\ alloc.alloc_obj_sz + RoundedSize(calls'[Len(calls')].ty)
         > alloc.reserved_obj_sz

\* C2: an alloc_obj of an object that does not fit any more returns Err with
\* the value it was given, and leaves the allocated-bytes counter, the stack
\* cursor, the StackBoxes and the contents of the region as they were.
C2_RefusedAllocChangesNothing ==
    [][IsRefusedCall =>
        /\ last'.op = "alloc_obj" /\ ~last'.ok /\ last'.val = last'.arg
        /\ alloc' = alloc
        /\ boxes' = boxes
        /\ mem' = mem]_vars

\* C2 witness: a refused alloc_obj on an allocator that holds a live object
C2_Witness ==
    /\ last.op = "alloc_obj" /\ ~last.ok
    /\ Len(boxes) >= 1 /\ boxes[1].live /\ boxes[1].size > 0

AllU64(k) == \A j \in 1..k : calls[j].ty = U64

\* C3: every alloc_obj succeeds exactly when the object fits in what is left
\* of the capacity; so with a capacity of 8 * N and only u64 objects, the
\* k-th call succeeds exactly when k <= N.
C3_SucceedsExactlyWhenFits ==
    \A k \in 1..Len(calls) :
        /\ calls[k].ok <=>
              PlacedBefore(k) + RoundedSize(calls[k].ty)
                <= alloc.reserved_obj_sz
        /\ (AllU64(k) /\ alloc.reserved_obj_sz % 8 = 0) =>
              (calls[k].ok <=> k <= alloc.reserved_obj_sz \div 8)

\* C3 witness: capacity 16, two u64 placed and the third refused
C3_Witness ==
    /\ alloc.reserved_obj_sz = 16
    /\ Len(calls) = 3 /\ AllU64(3)
    /\ calls[1].ok /\ calls[2].ok /\ ~calls[3].ok

\* C4: the StackBoxes of one allocator refer to pairwise disjoint byte
\* ranges inside the reserved region, and what is read through a live
\* StackBox is what was last written through that same StackBox.
C4_BoxesDoNotAlias ==
    /\ \A i, j \in 1..Len(boxes) :
          i # j => Range(boxes[i]) \cap Range(boxes[j]) = {}
    /\ \A i \in 1..Len(boxes) :
          /\ Range(boxes[i]) \subseteq
                stack_impl.addr..(stack_impl.addr + stack_impl.size - 1)
          /\ boxes[i].live =>
                \A x \in Range(boxes[i]) :
                    x \in DOMAIN mem /\ mem[x] = boxes[i].val

\* C4 witness: two live objects hold different values after a write
\* through one of them
C4_Witness ==
    /\ Len(boxes) >= 2
    /\ boxes[1].live /\ boxes[2].live
    /\ boxes[1].size > 0 /\ boxes[2].size > 0
    /\ boxes[1].val # boxes[2].val
    /\ last.op = "write"

\* the allocator a freshly constructed Stack gives for this capacity
FreshAllocator(reserved_obj_sz) ==
    StackObjectAllocator_new(
        reserve_stack(NullStack, 0, reserved_obj_sz,
                      CHOOSE a \in MapAddrs : TRUE),
        reserved_obj_sz)

\* the allocator after the first k of the recorded alloc_obj calls, had they
\* been made on allocator a
RECURSIVE RunCalls(_, _)
RunCalls(a, k) ==
    IF k = 0 THEN a
    ELSE alloc_obj(RunCalls(a, k - 1), calls[k].ty, 0).alloc

\* C15: the allocator of a Stack that was reserved before behaves like the
\* allocator of a freshly constructed Stack: each of its alloc_obj calls has
\* the result the same call has in the same sequence on a fresh allocator,
\* and its allocated-bytes counter is the one of the fresh allocator (0
\* before the first call), whatever the previous allocator placed.
C15_ReservedAgainBehavesAsFresh ==
    LET fresh == FreshAllocator(alloc.reserved_obj_sz)
    IN  /\ \A k \in 1..Len(calls) :
              calls[k].ok =
                  alloc_obj(RunCalls(fresh, k - 1), calls[k].ty, 0).ok
        /\ alloc.live =>
              alloc.alloc_obj_sz = RunCalls(fresh, Len(calls)).alloc_obj_sz

\* C15 witness: a Stack whose region was reserved for 16 bytes of objects is
\* reserved again for 8; the first u64 is placed and the second is refused
C15_Witness ==
    /\ alloc.live
    /\ alloc.reserved_obj_sz = 8
    /\ stack_impl.size = MinStackSz + 16
    /\ Len(calls) = 2
    /\ calls[1].ty = U64 /\ calls[1].ok
    /\ calls[2].ty = U64 /\ ~calls[2].ok

\* C25: while an allocator lives its allocated-bytes counter never
\* decreases; dropping a StackBox drops the value it holds, once (a dropped
\* box stays dropped), and changes neither the counter nor the cursor; an
\* object placed later overlaps no object placed before, dropped or not.
C25_DropReclaimsNothing ==
    [][/\ (alloc.live /\ alloc'.live) =>
            alloc'.alloc_obj_sz >= alloc.alloc_obj_sz
       /\ \A i \in 1..Len(boxes) :
            (boxes[i].live /\ boxes' # <<>> /\ ~boxes'[i].live) =>
                /\ alloc' = alloc
                /\ stack_impl' = stack_impl
                /\ \A x \in Range(boxes[i]) : x \notin DOMAIN mem'
                /\ \A j \in 1..Len(boxes) : j # i => boxes'[j] = boxes[j]
       /\ \A i \in 1..Len(boxes) :
            (~boxes[i].live /\ boxes' # <<>>) => ~boxes'[i].live
       /\ Len(boxes') = Len(boxes) + 1 =>
            \A i \in 1..Len(boxes) :
                Range(boxes'[Len(boxes')]) \cap Range(boxes[i]) = {}]_vars

\* C25 witness: a u64 was placed and dropped, then a second u64 was placed:
\* it lies below the first, and the counter counts both
C25_Witness ==
    /\ alloc.live
    /\ last.op = "alloc_obj" /\ last.ok
    /\ Len(boxes) = 2
    /\ ~boxes[1].live /\ boxes[2].live
    /\ boxes[1].size = 8 /\ boxes[2].size = 8
    /\ boxes[2].ptr + 8 = boxes[1].ptr
    /\ alloc.alloc_obj_sz = 16

(***************************************************************************)
(* Claims about the exit notification subsystem, checked under SigSpec.    *)
(***************************************************************************)
\* the ExitInfo of child c, as waitid reports it
InfoOf(c) == MakeExitInfo(SigInfoOf(c))

\* C5: the ExitInfo a wait(p) returns was built by the reap loop from a
\* waitid result whose si_pid was p.
C5_WaitReturnsInfoOfItsPid ==
    \A t \in Tasks :
        waiters[t].pc = "done" =>
            \E c \in Kids :
                /\ kids[c].st = "reaped"
                /\ kids[c].pid = waiters[t].pid
                /\ waiters[t].res = InfoOf(c)

\* C5 witness: two tasks have returned from wait for different pids, with
\* different ExitInfos
C5_Witness ==
    \E t, u \in Tasks :
        /\ waiters[t].pc = "done" /\ waiters[u].pc = "done"
        /\ waiters[t].pid # waiters[u].pid
        /\ waiters[t].res # waiters[u].res

\* the read of the signalfd itself has failed
ReadHasFailed == reaper.err \in ReadErrors

\* C6: unless the read of the signalfd fails, every child that has exited
\* is eventually reaped and inserted into the wait-map, and every task
\* suspended in wait for it eventually returns.
C6_NoExitIsLost ==
    /\ \A c \in Kids :
          (kids[c].st = "zombie") ~>
              \/ kids[c].st = "reaped" /\ kids[c].pid \in DOMAIN map
              \/ ReadHasFailed
    /\ \A t \in Tasks, c \in Kids :
          (/\ waiters[t].pc = "suspended" /\ waiters[t].pid = kids[c].pid
           /\ kids[c].st = "zombie")
              ~> (waiters[t].pc = "done" \/ ReadHasFailed)

\* C7: the ExitInfo wait returns for a child that exited with code c decodes
\* to exit status c and no signal; for a child killed by signal s it decodes
\* to signal s and no exit status.
C7_ExitInfoDecodes ==
    \A t \in Tasks, c \in Kids :
        (/\ waiters[t].pc = "done" /\ kids[c].st = "reaped"
         /\ waiters[t].pid = kids[c].pid /\ waiters[t].res = InfoOf(c)) =>
            LET k == kids[c]
            IN  /\ k.code = CLD_EXITED =>
                      /\ get_exit_status(waiters[t].res) = Some(k.status)
                      /\ get_term_sig(waiters[t].res) = None
                /\ k.code = CLD_KILLED =>
                      /\ get_term_sig(waiters[t].res) = Some(k.status)
                      /\ get_exit_status(waiters[t].res) = None

C9_SuspendedWaitersAgree ==
    \A t, u \in Tasks :
        (/\ waiters[t].pc = "done" /\ waiters[u].pc = "done"
         /\ waiters[t].early /\ waiters[u].early
         /\ waiters[t].pid = waiters[u].pid)
            => waiters[t].res = waiters[u].res

\* C16: once wait(p) has returned, the wait-map holds no entry for p any
\* more.
C16_EntryRemovedAfterDelivery ==
    \A t \in Tasks :
        waiters[t].pc = "done" => waiters[t].pid \notin DOMAIN map

\* C17: when the reap task leaves its waitid loop, because waitid reports
\* no further exited child or because no child is left at all, it goes back
\* to waiting for the signalfd to become readable; it never terminates.
C17_ReapTaskGoesBackToWaiting ==
    [][(reaper.pc = "waitid" /\ reaper'.pc # "waitid") =>
            reaper'.pc = "readable"]_vars

\* C18: when the read of the signalfd fails with an error other than EINTR
\* and would-block, or waitid fails, the reap task ends with that error as
\* its result; from then on it reads nothing, reaps nothing, inserts
\* nothing and does not start again.  Would-block does not end it.
C18_ReapTaskEndsOnError ==
    [][/\ reaper'.err # reaper.err => reaper'.pc = "failed"
       /\ (reaper.pc # "failed" /\ reaper'.pc = "failed") =>
            /\ reaper.pc = "try_io" => reaper'.err \in ReadErrors
            /\ reaper.pc = "waitid" => reaper'.err = ECHILD
            /\ reaper.pc \in {"try_io", "waitid"}
            /\ map' = map /\ sigq' = sigq
       /\ reaper.pc = "failed" =>
            /\ reaper' = reaper
            /\ map' = map
            /\ sigq.pending => sigq'.pending
            /\ \A c \in Kids : kids[c].st = "zombie" => kids'[c].st = "zombie"
       /\ (reaper.pc = "readable" /\ reaper'.pc # "readable") =>
            reaper'.pc = "try_io"]_vars

\* C18 witness: the task has ended with the error of the read while a
\* SIGCHLD is pending and a zombie waits to be reaped
C18_Witness ==
    /\ reaper.pc = "failed"
    /\ reaper.err \in ReadErrors
    /\ sigq.pending
    /\ \E c \in Kids : kids[c].st = "zombie"

\* C21: once a read of the signalfd has woken the reap loop, the loop goes
\* back to waiting for the signalfd only by a waitid that finds no exited
\* child, at a moment when no zombie is left; every child reaped on the way
\* was inserted into the wait-map by the step that reaped it, so all of them
\* are in the map when the loop waits again.
C21_DrainsBeforeWaitingAgain ==
    [][/\ (reaper.pc = "waitid" /\ reaper'.pc = "readable") =>
            /\ \A c \in Kids : kids[c].st # "zombie"
            /\ \A c \in Kids :
                  kids[c].st = "reaped" => kids[c].pid \in DOMAIN map
            /\ kids' = kids /\ map' = map
       /\ \A c \in Kids :
            (kids[c].st = "zombie" /\ kids'[c].st = "reaped") =>
                /\ reaper.pc = "waitid" /\ reaper'.pc = "waitid"
                /\ kids[c].pid \in DOMAIN map'
                /\ map'[kids[c].pid] = InfoOf(c)
       /\ (reaper.pc = "try_io" /\ reaper'.pc = "readable") =>
            ~sigq.pending]_vars

\* C21 witness: the loop waits again after a drain that reaped a child,
\* which is in the map, and then found no exited child while another child
\* runs on
C21_Witness ==
    /\ reaper.pc = "readable"
    /\ ~sigq.pending
    /\ \E c, d \in Kids :
          /\ kids[c].st = "reaped"
          /\ kids[c].pid \in DOMAIN map /\ map[kids[c].pid] = InfoOf(c)
          /\ kids[d].st = "running"

\* C26: what is read from the signalfd has no part in the wait-map: every
\* change of the map is the insertion of what one waitid call returned for
\* one zombie, its si_pid as the key and an ExitInfo of its si_uid,
\* si_status, si_utime and si_stime as the value, whatever record the read
\* delivered; and the read that delivers a record changes no entry.
C26_RecordsReadAreDiscarded ==
    [][/\ map' # map =>
            \E c \in Kids :
                LET si == SigInfoOf(c)
                IN  /\ kids[c].st = "zombie" /\ kids'[c].st = "reaped"
                    /\ reaper.pc = "waitid"
                    /\ map' = MapInsert(map, si.si_pid,
                                        [uid |-> si.si_uid,
                                         wstatus |-> si.si_status,
                                         utime |-> si.si_utime,
                                         stime |-> si.si_stime])
       /\ reaper'.buf # reaper.buf => map' = map]_vars

\* C26 witness: the record read names one child, and the entry inserted
\* since is the one of another child, whose SIGCHLD was absorbed
C26_Witness ==
    /\ reaper.pc = "waitid"
    /\ reaper.buf # 0
    /\ \E c \in Kids :
          /\ kids[c].st = "reaped"
          /\ kids[c].pid # reaper.buf
          /\ kids[c].pid \in DOMAIN map
          /\ map[kids[c].pid].wstatus = kids[c].status
    /\ \E d \in Kids : kids[d].st = "zombie" /\ kids[d].pid = reaper.buf

\* the child that holds pid p now, or held it last
LatestWithPid(p) ==
    CHOOSE c \in Kids :
        /\ kids[c].st # "unborn" /\ kids[c].pid = p
        /\ \A d \in Kids :
              (kids[d].st # "unborn" /\ kids[d].pid = p) => d <= c

\* C28: a wait(p) that is called when pid p has gone to a later child, after
\* an entry for an earlier child with pid p was inserted, does not return
\* before that later child was reaped, and returns the ExitInfo of the
\* later child.
C28_WaitForReusedPidGetsLaterChild ==
    [][\A t \in Tasks :
          (waiters[t].pc = "idle" /\ waiters'[t].pc = "done") =>
              LET c == LatestWithPid(waiters'[t].pid)
              IN  /\ kids[c].st = "reaped"
                  /\ waiters'[t].res = InfoOf(c)]_vars

(***************************************************************************)
(* Claims about avfork, checked under ForkSpec.                            *)
(***************************************************************************)
ChildIsDone == child.st \in {"execd", "exited"}

\* C10: after a successful avfork whose callback writes nothing, a read on
\* the returned fd returns Ok(0) and nothing else, it returns only once the
\* child has exec'd or exited, and it does return then; on every attempt.
C10_SilentCallbackReadsEof ==
    /\ []((caller.res # NoRead /\ ~child.f.writes) =>
             (caller.res = toResult(0) /\ ChildIsDone))
    /\ (caller.pc = "spawned" /\ ~child.f.writes /\ ChildIsDone)
          ~> (caller.pc = "read_done" /\ caller.res = toResult(0))

\* C10 witness: the second attempt on a Stack that was reserved again has
\* read EOF after its silent callback exec'd
C10_Witness ==
    /\ caller.n = 2
    /\ caller.pc = "read_done"
    /\ caller.res = toResult(0)
    /\ ~child.f.writes /\ child.st = "execd"
    /\ alloc.live /\ alloc.stack.addr = stack_impl.addr

\* C11: avfork returns Ok((FdBox of fd r, pid of the child)) exactly when
\* aspawn returned r >= 0, and Err with errno = -r exactly when aspawn
\* returned r < 0; on the error path no FdBox exists and the caller's open
\* fds are the ones it had.
C11_AvforkResultFollowsAspawn ==
    [][caller'.n = caller.n + 1 =>
        LET r == caller'.ret
        IN  /\ r >= 0 <=> caller'.pc = "spawned"
            /\ r < 0 <=> caller'.pc = "panicked"
            /\ r >= 0 =>
                  /\ caller'.fd = r /\ caller'.fd \in fdtab'
                  /\ caller'.pid \in ChildPids
                  /\ caller'.err = 0
            /\ r < 0 =>
                  /\ caller'.err = 0 - r
                  /\ caller'.fd = 0 - 1
                  /\ fdtab' = fdtab]_vars

\* C11 witness: after an attempt that succeeded and was read to EOF, the next
\* avfork returned the error of aspawn
C11_Witness ==
    /\ caller.n = 2
    /\ caller.pc = "panicked"
    /\ caller.ret < 0
    /\ caller.err = 0 - caller.ret
    /\ caller.fd = 0 - 1

\* C12: when avfork returns, with Ok or with Err, the signal mask and the
\* cancellation state of the calling thread are what they were before the
\* call.
C12_MaskAndCancelStateRestored ==
    [][caller'.n = caller.n + 1 =>
        /\ caller'.sigmask = caller.sigmask
        /\ caller'.cancel = caller.cancel]_vars

\* C12 witness: an avfork that failed on a thread that had SIGCHLD blocked
C12_Witness ==
    /\ caller.n >= 1
    /\ caller.pc = "panicked"
    /\ caller.ret < 0
    /\ caller.sigmask = {"SIGCHLD"}

(***************************************************************************)
(* Claims about the pool of Stacks, checked under PoolSpec.                *)
(***************************************************************************)
\* C13: a get() that is served from the pool returns the pooled Stack and
\* neither constructs nor destroys a Stack; a Stack is constructed only by a
\* get() that finds the pool empty.
C13_GetConstructsOnlyWhenEmpty ==
    /\ lastget.pooled => (lastget.made = {} /\ lastget.dropped = {})
    /\ (lastget.thread # 0 /\ ~lastget.pooled) =>
          (lastget.made = {lastget.ret} /\ lastget.dropped = {})

\* where the Stack with this id is: in the queue, or owned by a thread
InQueue(id) == {i \in 1..Len(queue) : queue[i].id = id}
Owners(id) == {t \in Threads : \E st \in held[t] : st.id = id}

\* C14: every Stack that was constructed and not dropped is in exactly one
\* place: once in the pool, or owned by one thread.  So a Stack that was put
\* is returned by at most one get, and is in the pool until then.
C14_NoStackDuplicatedOrLost ==
    \A id \in 1..made :
        IF id \in gone
        THEN InQueue(id) = {} /\ Owners(id) = {}
        ELSE Cardinality(InQueue(id)) + Cardinality(Owners(id)) = 1

\* C14 witness: a thread was served from the pool a Stack that another
\* thread had constructed and put there; each of two threads owns a Stack
\* and one more is pooled
C14_Witness ==
    /\ Len(queue) >= 1
    /\ lastget.pooled
    /\ \E t, u \in Threads :
          /\ t # u /\ lastget.thread = t
          /\ \E st \in held[t] : st.id = lastget.ret
          /\ held[u] # {}

(***************************************************************************)
(* Claims about autorestart, checked under RestartSpec.                    *)
(***************************************************************************)
\* the number of Err(EINTR) the script starts with
RECURSIVE LeadingEintr(_)
LeadingEintr(s) ==
    IF s # <<>> /\ s[1] = Err(EINTR) THEN 1 + LeadingEintr(Tail(s)) ELSE 0

\* the closure returns something else than Err(EINTR) at some call
EventuallyOther == LeadingEintr(script) < Len(script)

\* C19: autorestart(f) returns the first result of f that is not Err(EINTR),
\* be it Ok or another error, after calling f once for each leading EINTR
\* and once more; and it returns whenever f has such a result.
C19_AutorestartReturnsFirstOther ==
    /\ [](ar.pc = "done" =>
            /\ EventuallyOther
            /\ ar.ret = script[LeadingEintr(script) + 1]
            /\ ar.ncalls = LeadingEintr(script) + 1)
    /\ []((ar.pc = "loop" /\ EventuallyOther) =>
              ar.ncalls <= LeadingEintr(script))
    /\ EventuallyOther => <>(ar.pc = "done")

\* C19 witness: after one EINTR the closure fails with another error, which
\* autorestart returns after two calls, although an Ok would follow
C19_Witness ==
    /\ ar.pc = "done"
    /\ Len(script) = 3
    /\ script[1] = Err(EINTR)
    /\ script[2] = Err(11)
    /\ script[3] = Ok(1)
    /\ ar.ret = Err(11)
    /\ ar.ncalls = 2


(***************************************************************************)
(* Claims about execvel and fexecvel, checked under ExecSpec.              *)
(***************************************************************************)
\* the errnos the search goes past
Passed == {ENOENT, EACCES, ENOTDIR, ESTALE, ENODEV, ETIMEDOUT}
\* no candidate can be executed: every execve fails with one of them
NoCandidateRuns == \A k \in DOMAIN outcomes : outcomes[k] \in Passed
SomeDenied == \E k \in DOMAIN outcomes : outcomes[k] = EACCES
EveryDenied == \A k \in DOMAIN outcomes : outcomes[k] = EACCES

\* C20, as the code has it: execvel and fexecvel try the search paths in
\* the given order and go past ENOENT, EACCES, ENOTDIR, ESTALE, ENODEV and
\* ETIMEDOUT; an error that is none of these is returned at once; when no
\* candidate can be executed every path was tried, and the call returns
\* EACCES if at least one candidate was permission-denied and ENOENT
\* otherwise.
C20_SearchReturnsEaccesIfAnyDenied ==
    ex.pc = "returned" =>
        LET n == Len(ex.tried)
        IN  /\ n >= 1
            /\ ex.tried = [j \in 1..n |-> j]
            /\ \A j \in 1..(n - 1) : outcomes[j] \in Passed
            /\ outcomes[n] \notin Passed => ex.ret = outcomes[n]
            /\ outcomes[n] \in Passed => n = Len(outcomes)
            /\ NoCandidateRuns =>
                  ex.ret = IF SomeDenied THEN EACCES ELSE ENOENT

\* C20 as stated: when no candidate can be executed the call returns EACCES
\* if every candidate was permission-denied and ENOENT otherwise.
C20_EaccesOnlyIfEveryDenied ==
    (ex.pc = "returned" /\ NoCandidateRuns) =>
        ex.ret = IF EveryDenied THEN EACCES ELSE ENOENT

\* fexecvel has gone through three paths, the second of which alone was
\* permission-denied, and returned EACCES
C20_Witness ==
    /\ ex.fn = "fexecvel"
    /\ ex.pc = "returned"
    /\ outcomes = <<ENOENT, EACCES, ESTALE>>
    /\ ex.tried = <<1, 2, 3>>
    /\ ex.ret = EACCES


(***************************************************************************)
(* Claims about the stack of the child, checked under ArenaForkSpec.       *)
(***************************************************************************)
\* the bytes of the region a Stack_t describes
Region(stack) == stack.addr..(stack.addr + stack.size - 1)

\* C29: the Stack_t avfork hands to aspawn is the copy in the allocator,
\* which every alloc_obj made before the call has advanced: it is what the
\* Stack reserved less the bytes allocated; so the region the child runs
\* on holds no byte of an object placed through the allocator before the
\* call, the callback among them.
C29_ChildStackBelowObjects ==
    [][(caller'.n = caller.n + 1 /\ child'.st = "callback") =>
            /\ child'.stack = alloc.stack
            /\ child'.stack.addr = stack_impl.addr
            /\ child'.stack.size = stack_impl.size - alloc.alloc_obj_sz
            /\ \A i \in 1..Len(boxes) :
                  Range(boxes[i]) \cap Region(child'.stack) = {}
            /\ \E i \in 1..Len(boxes) :
                  /\ boxes[i].live /\ boxes[i].ptr = child'.func
                  /\ boxes[i].ptr >= child'.stack.addr + child'.stack.size]_vars

\* C29 witness: avfork was called with a callback of 8 bytes placed after
\* another object of 8 bytes: the child runs below both
C29_Witness ==
    /\ child.st = "callback"
    /\ Len(boxes) = 2
    /\ boxes[1].size = 8 /\ boxes[2].size = 8
    /\ child.func = boxes[2].ptr
    /\ child.stack.size = stack_impl.size - 16
    /\ child.stack.addr + child.stack.size = boxes[2].ptr

(***************************************************************************)
(* Claims about SigChldFd::new, checked under NewSpec.                     *)
(***************************************************************************)
\* the open signalfd with number fd, if there is one
SigfdsAt(fd) == {x \in sigfds : x.fd = fd}

\* C22: SigChldFd::new blocks SIGCHLD, then creates the signalfd for
\* SIGCHLD, non-blocking and close-on-exec, then spawns one reap task: the
\* signalfd is created only with SIGCHLD blocked, the task is spawned only
\* on the open, registered signalfd of this call; when new() returns Ok,
\* SIGCHLD is blocked and exactly one task reads that signalfd; when a step
\* fails new() returns Err and has spawned no task.
C22_NewBlocksThenOpensThenSpawns ==
    [][/\ \A x \in sigfds' \ sigfds :
            \/ /\ "SIGCHLD" \in blocked
               /\ x.mask = {"SIGCHLD"} /\ x.nonblock /\ x.cloexec
               /\ readers' = readers
            \/ \E y \in sigfds : y.fd = x.fd /\ x.registered
       /\ readers' # readers =>
            /\ \E r \in readers' \ readers :
                  /\ readers' = readers \cup {r}
                  /\ r.fd = ctor.fd
                  /\ \E x \in sigfds : x.fd = r.fd /\ x.registered
            /\ "SIGCHLD" \in blocked
            /\ ctor'.ret = "Ok"
       /\ (ctor.ret = "none" /\ ctor'.ret = "Ok") =>
            /\ "SIGCHLD" \in blocked'
            /\ Cardinality({r \in readers' : r.fd = ctor'.fd}) = 1
            /\ Cardinality(readers') = Cardinality(readers) + 1
            /\ SigfdsAt(ctor'.fd) # {}
       /\ (ctor.ret = "none" /\ ctor'.ret = "Err") =>
            /\ readers' = readers
            /\ \A r \in readers : r.id # ctor.n
            /\ ctor'.err # 0]_vars

\* C22 witness: new() has returned Ok a second time, on a thread that had
\* SIGINT blocked: two tasks each read a signalfd of their own
C22_Witness ==
    /\ ctor.n = 2 /\ ctor.ret = "Ok"
    /\ blocked = {"SIGCHLD", "SIGINT"}
    /\ Cardinality(readers) = 2
    /\ Cardinality({r.fd : r \in readers}) = 2


(***************************************************************************)
(* Claims about the child of avfork, checked under ChildSpec.              *)
(***************************************************************************)
\* the mask the callback is to be given: the one the thread had before the
\* call, or the one passed to avfork_rec
MaskForCallback ==
    IF spawner.entry = "avfork_rec" THEN spawner.old_sigset
    ELSE spawner.sigmask

\* C23: in the child of avfork or avfork_rec the callback is called only
\* with all signals masked and every handler reset to the default; it is
\* called once, and not before the child exists, with the callback object
\* placed in the arena, the write end of the completion pipe, and the mask
\* the thread had before the call (for avfork_rec: the mask passed in).
C23_CallbackRunsOnceMaskedAndReset ==
    /\ Len(cb.calls) <= 1
    /\ cb.pc \in {"callback", "execd", "exited"} <=> Len(cb.calls) = 1
    /\ cb.pc # "none" => spawner.pc = "spawned"
    /\ \A k \in 1..Len(cb.calls) :
          /\ cb.calls[k].sigmask = Signals
          /\ \A s \in Signals : cb.calls[k].handlers[s] = "SIG_DFL"
          /\ cb.calls[k].func = spawner.func
          /\ cb.calls[k].func \in ArenaAddrs
          /\ cb.calls[k].fd = cb.write_end_fd /\ cb.calls[k].fd >= 0
          /\ cb.calls[k].old_sigset = MaskForCallback

\* C23 witness: the child of an avfork_rec made by a thread that has SIGINT
\* blocked and a handler for SIGCHLD has called the callback, giving it
\* the sigset {SIGCHLD} that was passed in
C23_Witness ==
    /\ spawner.entry = "avfork_rec"
    /\ spawner.sigmask = {"SIGINT"}
    /\ spawner.handlers["SIGCHLD"] = "handler"
    /\ spawner.old_sigset = {"SIGCHLD"}
    /\ cb.pc = "callback"
    /\ Len(cb.calls) = 1
    /\ cb.calls[1].old_sigset = {"SIGCHLD"}


(***************************************************************************)
(* Claims about ExitInfo, checked under InfoSpec.                          *)
(***************************************************************************)
\* C24: of every ExitInfo the reap loop inserts, exactly one of
\* get_exit_status() and get_term_sig() is Some.
C24_ExitedXorSignaled ==
    exitinfo # NoInfo =>
        (get_exit_status(exitinfo).some <=> ~get_term_sig(exitinfo).some)


(***************************************************************************)
(* Claims about SyscallError, checked under MsgSpec.                       *)
(***************************************************************************)
\* C27: for every errno get_msg returns a message and does not panic or
\* index outside the table: the entry errno - 1 of the table for errno in
\* 1..errno_msgs_sz and "Unknown errno code" for every other errno, 0
\* included; calls that are repeated return the same.
C27_GetMsgIsTotalAndStable ==
    \A k \in 1..Len(msgs) :
        /\ msgs[k].kind # "panic"
        /\ msgs[k] = IF serr.errno \in 1..errno_msgs_sz
                     THEN [kind |-> "msg", i |-> serr.errno - 1]
                     ELSE [kind |-> "unknown", i |-> 0]
        /\ msgs[k] = msgs[1]


====
